---- MODULE Spec2Model ----
(***************************************************************************)
(* Model of the country directory's data transfer objects                  *)
(* (src/src/collectors/models.py) and of the Renderer that formats a       *)
(* LocationInfoDTO into text blocks (src/src/renderer.py).                 *)
(*                                                                         *)
(* Text is a sequence of tokens: one token per ASCII character, and one    *)
(* token per Cyrillic word of the source (written in Latin letters here,   *)
(* "rub." for the source's rouble suffix).  Names of countries, languages  *)
(* and currencies are single tokens.                                       *)
(***************************************************************************)
EXTENDS Integers, Sequences, FiniteSets, TLC

VARIABLES
    currency_pool,   \* CurrencyInfoDTO instances built and not yet held by a CountryDTO
    language_pool,   \* LanguagesInfoDTO instances built and not yet held by a CountryDTO
    country,         \* the CountryDTO, or None
    weather,         \* the WeatherInfoDTO, or None
    location_info,   \* the LocationInfoDTO, or None; its location and weather fields
                     \* refer to the two objects above
    renderer,        \* TRUE once Renderer(location_info) exists
    clock,           \* the UTC instant, in seconds since the start of day Epoch
    calls            \* the render() calls made so far: what they read, and what they returned

vars == <<currency_pool, language_pool, country, weather, location_info, renderer,
          clock, calls>>

None == [type |-> "NoneType"]

(***************************************************************************)
(* Bounds of the model.                                                    *)
(***************************************************************************)
MaxInstances == 2    \* CurrencyInfoDTO (and LanguagesInfoDTO) instances built per request
MaxNews == 1         \* news items of a report
MaxRenders == 2      \* render() calls recorded
MaxTicks == 2        \* clock steps
FirstInstant == 86340        \* the instant of the first reading of the clock (23:59:00)
TickSeconds == 1830          \* seconds between two readings of the clock

(***************************************************************************)
(* The values the collectors hand over.                                    *)
(***************************************************************************)
Codes == {"EUR", "USD"}
Languages == {<<"Swedish", "svenska">>, <<"Finnish", "suomi">>}
Alpha2Codes == {<<"A">>, <<"A", "X">>, <<"A", "L", "A">>}
Populations == {999, 28875}
Timezones == {0, 7200}
RateMicros == {16503}                         \* 0.016503
\* for the formatters: digit counts 1..10, both signs, ties and near-ties
AllPopulations == {0, 7, 999, 1000, 28875, 999999, 1000000, 1234567890, -1234}
AllTimezones == {-43200, -3600, -1, 0, 3599, 7200, 19800, 32400, 36000, 50400}
AllRateMicros == {0, 4999, 5000, 15000, 16503, 125000, 1005000, 2000000}

(***************************************************************************)
(* Python values.                                                          *)
(***************************************************************************)
Digits == <<"0", "1", "2", "3", "4", "5", "6", "7", "8", "9">>

\* str(n) of a non-negative int
RECURSIVE str_nat(_)
str_nat(n) == IF n < 10 THEN <<Digits[n + 1]>>
              ELSE str_nat(n \div 10) \o <<Digits[(n % 10) + 1]>>

\* str(n) of an int
str_int(n) == IF n < 0 THEN <<"-">> \o str_nat(-n) ELSE str_nat(n)

\* sep.join(parts)
RECURSIVE join(_, _)
join(sep, parts) ==
    IF parts = <<>> THEN <<>>
    ELSE IF Len(parts) = 1 THEN parts[1]
    ELSE parts[1] \o sep \o join(sep, Tail(parts))

\* s.replace(old, new) for a one-character old and new
replace(s, old, new) == [i \in DOMAIN s |-> IF s[i] = old THEN new ELSE s[i]]

Range(s) == {s[i] : i \in DOMAIN s}

(***************************************************************************)
(* HashableBaseModel: instances, __hash__ and the inherited __eq__.        *)
(* An instance is [type, id, dict]; id is the object's identity.           *)
(***************************************************************************)
\* tuple(self.__dict__.values()): the field values in declaration order
dict_values(self) ==
    IF self.type = "CurrencyInfoDTO" THEN <<self.dict.code>>
    ELSE <<self.dict.name, self.dict.native_name>>

\* HashableBaseModel.__hash__: hash((type(self),) + tuple(self.__dict__.values())).
\* The hash value is the hashed tuple: equal tuples hash alike.
hash(self) == <<self.type>> \o dict_values(self)

\* BaseModel.__eq__: same class and equal fields
eq(self, other) == self.type = other.type /\ self.dict = other.dict

\* set.add(x): x is dropped when the set holds an element with x's hash that equals x
set_add(s, x) ==
    IF \E i \in DOMAIN s : hash(s[i]) = hash(x) /\ eq(s[i], x) THEN s ELSE Append(s, x)

\* set(iterable), as the elements kept, in insertion order
RECURSIVE set_of(_)
set_of(items) ==
    IF items = <<>> THEN <<>>
    ELSE set_add(set_of(SubSeq(items, 1, Len(items) - 1)), items[Len(items)])

\* The orders in which a set holding `elems` can iterate: the order of the hash
\* table's slots, which the element hashes (randomised per process) decide.  A
\* set is stored as its elements in iteration order.
set_layouts(elems) ==
    {t \in [DOMAIN elems -> Range(elems)] : Range(t) = Range(elems)}

(***************************************************************************)
(* float and Decimal.  A rate is written in the source data as a decimal   *)
(* with at most six fractional digits, micros / 10^6.  The float holding   *)
(* it is the IEEE-754 double nearest to that decimal; it is kept as the    *)
(* decimal together with err, the sign of (double - decimal).              *)
(***************************************************************************)
Million == 1000000
FiveToSix == 15625           \* 10^6 = 2^6 * 5^6
MantissaBits == 52           \* explicit significand bits of a double

RECURSIVE pow2mod(_, _)
pow2mod(p, m) == IF p = 0 THEN 1 % m ELSE (2 * pow2mod(p - 1, m)) % m

\* the binary exponent e of mag / 10^6 > 0: 2^e <= mag / 10^6 < 2^(e+1)
RECURSIVE exp_up(_, _)
exp_up(mag, unit) == IF 2 * unit <= mag THEN 1 + exp_up(mag, 2 * unit) ELSE 0
RECURSIVE exp_down(_)
exp_down(mag) == IF mag < Million THEN exp_down(2 * mag) - 1 ELSE 0
binary_exponent(mag) == IF mag >= Million THEN exp_up(mag, Million) ELSE exp_down(mag)

\* The sign of (double nearest to mag / 10^6) - mag / 10^6, for mag >= 0.  The
\* significand is round(mag * 2^(52 - e) / 10^6) = round(mag * 2^(46 - e) / 5^6); the
\* remainder of that division, which is never exactly half of 5^6, says which way
\* round-to-nearest went.
nearest_double_err(mag) ==
    IF mag = 0 THEN 0
    ELSE LET p == (MantissaBits - 6) - binary_exponent(mag)
             r == ((mag % FiveToSix) * pow2mod(p, FiveToSix)) % FiveToSix
         IN  IF r = 0 THEN 0 ELSE IF 2 * r < FiveToSix THEN -1 ELSE 1

abs(n) == IF n < 0 THEN -n ELSE n
sign(n) == IF n < 0 THEN -1 ELSE 1

\* float("<micros / 10^6>")
float(micros) ==
    [micros |-> micros, err |-> sign(micros) * nearest_double_err(abs(micros))]

\* Decimal(f): the exact value of the double, binary error included
Decimal(f) == [micros |-> f.micros, err |-> f.err]

\* d.quantize(Decimal('.01'), rounding=ROUND_HALF_UP), in hundredths: the
\* magnitude rounds up when its discarded part is at least half a hundredth.
quantize_half_up(d) ==
    LET mag  == abs(d.micros)
        q    == mag \div 10000
        rest == mag % 10000
        e    == sign(d.micros) * d.err       \* error of the magnitude
        up   == rest > 5000 \/ (rest = 5000 /\ e >= 0)
    IN  [negative |-> d.micros < 0, hundredths |-> IF up THEN q + 1 ELSE q]

\* str() of a Decimal with two fractional digits
str_decimal(c) ==
    (IF c.negative THEN <<"-">> ELSE <<>>)
    \o str_nat(c.hundredths \div 100) \o <<".">>
    \o <<Digits[((c.hundredths \div 10) % 10) + 1], Digits[(c.hundredths % 10) + 1]>>

(***************************************************************************)
(* datetime and timedelta.                                                 *)
(***************************************************************************)
DaySeconds == 86400
Epoch == 738000              \* proleptic ordinal of the day clock = 0 starts

\* datetime.utcnow() at instant t (microseconds play no part in "%H:%M")
utcnow(t) ==
    LET s == t % DaySeconds
    IN  [ordinal |-> Epoch + t \div DaySeconds,
         hour |-> s \div 3600, minute |-> (s % 3600) \div 60, second |-> s % 60]

\* timedelta(days=d, seconds=s), normalised: 0 <= seconds < 86400
timedelta(d, s) == [days |-> d + s \div DaySeconds, seconds |-> s % DaySeconds]

\* A datetime sum that does not carry the seconds of the day into the hour.
datetime_add_no_carry(dt, td) ==
    LET secs == dt.hour * 3600 + dt.minute * 60 + dt.second + td.seconds
    IN  [ordinal |-> dt.ordinal + td.days,
         hour |-> secs \div 3600, minute |-> (secs % 3600) \div 60, second |-> secs % 60]

\* datetime.__add__(timedelta)
datetime_add(dt, td) ==
    LET delta == timedelta(dt.ordinal + td.days,
                           dt.hour * 3600 + dt.minute * 60 + dt.second + td.seconds)
        rem   == delta.seconds % 3600
    IN  [ordinal |-> delta.days,
         hour |-> delta.seconds \div 3600, minute |-> rem \div 60, second |-> rem % 60]

\* "%02d" % n
zero_pad2(n) == IF n < 10 THEN <<"0">> \o str_nat(n) ELSE str_nat(n)

\* dt.strftime("%H:%M")
strftime_HM(dt) == zero_pad2(dt.hour) \o <<":">> \o zero_pad2(dt.minute)

(***************************************************************************)
(* Renderer.  report is self.location_info, the LocationInfoDTO as the    *)
(* Renderer reads it: [location, weather, currency_rates, news].           *)
(***************************************************************************)
\* The languages read from a set that is laid out anew on every call: the order
\* of one call is the reverse of the order of the call before it.
_format_languages_relaid(report) ==
    LET languages == report.location.dict.languages
        n == Len(languages)
        order == [i \in 1..n |-> IF Len(calls) % 2 = 0 THEN languages[i]
                                 ELSE languages[n + 1 - i]]
    IN  join(<<",", " ">>,
             [i \in 1..n |-> <<order[i].dict.name, " ", "(", order[i].dict.native_name, ")">>])

\* Renderer._format_languages
_format_languages(report) ==
    LET languages == report.location.dict.languages
    IN  join(<<",", " ">>,
             [i \in DOMAIN languages |->
                 <<languages[i].dict.name, " ", "(", languages[i].dict.native_name, ")">>])

\* "{:,}".format(n) of an int n >= 0
RECURSIVE format_comma(_)
format_comma(n) ==
    IF n < 1000 THEN str_nat(n)
    ELSE format_comma(n \div 1000) \o <<",">>
         \o <<Digits[((n \div 100) % 10) + 1], Digits[((n \div 10) % 10) + 1],
              Digits[(n % 10) + 1]>>

\* The population with the comma separators left in place.
_format_population_commas(report) ==
    LET n == report.location.dict.population
    IN  (IF n < 0 THEN <<"-">> ELSE <<>>) \o format_comma(abs(n))

\* Renderer._format_population
_format_population(report) ==
    LET n == report.location.dict.population
    IN  replace((IF n < 0 THEN <<"-">> ELSE <<>>) \o format_comma(abs(n)), ",", ".")

\* Renderer._format_currency_rates
_format_currency_rates(report) ==
    LET items == report.currency_rates
    IN  join(<<",", " ">>,
             [i \in DOMAIN items |->
                 <<items[i][1], " ", "=", " ">>
                 \o str_decimal(quantize_half_up(Decimal(items[i][2])))
                 \o <<" ", "rub.">>])

\* The offset rounded to the nearest hour instead of floored.
_format_timezone_nearest(report) ==
    <<"U", "T", "C", "+", "0">>
    \o str_int((report.weather.dict.timezone + 1800) \div (60 * 60))
    \o <<":", "0", "0">>

\* Renderer._format_timezone
_format_timezone(report) ==
    <<"U", "T", "C", "+", "0">>
    \o str_int(report.weather.dict.timezone \div (60 * 60))
    \o <<":", "0", "0">>

\* The local time with a sum that drops the carry into the next day.
_format_current_time_no_carry(report, now) ==
    strftime_HM(datetime_add_no_carry(utcnow(now),
                                      timedelta(0, report.weather.dict.timezone)))

\* Renderer._format_current_time, read at instant now
_format_current_time(report, now) ==
    strftime_HM(datetime_add(utcnow(now), timedelta(0, report.weather.dict.timezone)))

\* tabulate(rows, tablefmt="simple_grid"): the grid of the rows, laid out by the
\* tabulate library
tabulate(rows) == [grid |-> rows]

\* the rows of render's three tables
location_rows(report, now) ==
    LET l == report.location.dict
    IN  << <<"Strana", <<l.name>> >>,
           <<"Stolitsa", <<l.capital>> >>,
           <<"Region", <<l.subregion>> >>,
           <<"Yazyki", _format_languages(report)>>,
           <<"Naselenie strany", _format_population(report) \o <<" ", "chel.">> >>,
           <<"Ploshchad strany", <<l.area, " ", "kv.km">> >>,
           <<"Chasovoy poyas", _format_timezone(report)>>,
           <<"Tekushchee vremya", _format_current_time(report, now)>>,
           <<"Kursy valyut", _format_currency_rates(report)>> >>

capital_rows(report) ==
    LET l == report.location.dict
    IN  << <<"Stolitsa", <<l.capital>> >>,
           <<"Shirota", <<l.latitude>> >>,
           <<"Dolgota", <<l.longitude>> >> >>

weather_rows(report) ==
    LET w == report.weather.dict
    IN  << <<"Pogoda", <<w.description>> >>,
           <<"Temperatura", <<w.temp, " ", "C">> >>,
           <<"Vidimost", <<w.visibility, " ", "m">> >>,
           <<"Skorost vetra", <<w.wind_speed, " ", "m/s">> >> >>

\* render() with the news laid out as a fourth section when there is any.
render_with_news(report, now) ==
    <<"Informatsiya o strane", tabulate(location_rows(report, now)),
      "Informatsiya o stolitse", tabulate(capital_rows(report)),
      "Informatsiya o pogode", tabulate(weather_rows(report))>>
    \o (IF report.news = <<>> THEN <<>>
        ELSE <<"Novosti", tabulate([i \in DOMAIN report.news |->
                                       <<report.news[i].dict.source,
                                         report.news[i].dict.title>>])>>)

\* Renderer.render, called at instant now
render(report, now) ==
    <<"Informatsiya o strane", tabulate(location_rows(report, now)),
      "Informatsiya o stolitse", tabulate(capital_rows(report)),
      "Informatsiya o pogode", tabulate(weather_rows(report))>>

(***************************************************************************)
(* The models of collectors/models.py.  A field the Renderer only copies   *)
(* into a row keeps the value of the class's documented example.           *)
(***************************************************************************)
CurrencyInfoDTO(id, code) ==
    [type |-> "CurrencyInfoDTO", id |-> id, dict |-> [code |-> code]]

LanguagesInfoDTO(id, name, native_name) ==
    [type |-> "LanguagesInfoDTO", id |-> id,
     dict |-> [name |-> name, native_name |-> native_name]]

\* CountryDTO(...): every field is taken as given; currencies and languages are
\* sets, already built
CountryDTO(alpha2code, population, currencies, languages) ==
    [type |-> "CountryDTO",
     dict |-> [capital |-> "Mariehamn", alpha2code |-> alpha2code,
               alt_spellings |-> <<"AX", "Aaland", "Aland", "Ahvenanmaa">>,
               currencies |-> currencies, flag |-> "AX.svg", languages |-> languages,
               name |-> "Aland Islands", population |-> population,
               subregion |-> "Northern Europe", timezones |-> <<"UTC+02:00">>,
               area |-> "1580.0", latitude |-> "60.116667", longitude |-> "19.9"]]

WeatherInfoDTO(timezone) ==
    [type |-> "WeatherInfoDTO",
     dict |-> [temp |-> "13.92", pressure |-> 1023, humidity |-> 54,
               wind_speed |-> "4.63", description |-> "scattered clouds",
               visibility |-> 10000, timezone |-> timezone,
               latitude |-> "44.34", longitude |-> "10.99"]]

NewsDTO(n) == [type |-> "NewsDTO", dict |-> [source |-> "USA Today", title |-> n]]

\* LocationInfoDTO(location=country, weather=weather, currency_rates=..., news=...)
LocationInfoDTO(currency_rates, news) ==
    [type |-> "LocationInfoDTO",
     dict |-> [currency_rates |-> currency_rates, news |-> news]]

\* dict[str, float] values with at most two items, as the items in insertion order
rate_dicts(micros) ==
    {<<>>}
    \cup {<<<<c, float(m)>>>> : c \in Codes, m \in micros}
    \cup {<<<<c1, float(m1)>>, <<c2, float(m2)>>>> :
            <<c1, m1, c2, m2>> \in {q \in Codes \X micros \X Codes \X micros : q[1] # q[3]}}

news_lists == {[i \in 1..n |-> NewsDTO(i)] : n \in 0..MaxNews}

\* self.location_info with its references followed
the_report ==
    [location |-> country, weather |-> weather,
     currency_rates |-> location_info.dict.currency_rates,
     news |-> location_info.dict.news]

(***************************************************************************)
(* Operations.                                                             *)
(***************************************************************************)
Init ==
    /\ currency_pool = <<>>
    /\ language_pool = <<>>
    /\ country = None
    /\ weather = None
    /\ location_info = None
    /\ renderer = FALSE
    /\ clock = FirstInstant
    /\ calls = <<>>

NewCurrency(code) ==
    /\ country = None
    /\ Len(currency_pool) < MaxInstances
    /\ currency_pool' = Append(currency_pool, CurrencyInfoDTO(Len(currency_pool) + 1, code))
    /\ UNCHANGED <<language_pool, country, weather, location_info, renderer, clock, calls>>

NewLanguage(name, native_name) ==
    /\ country = None
    /\ Len(language_pool) < MaxInstances
    /\ language_pool' = Append(language_pool,
                               LanguagesInfoDTO(Len(language_pool) + 1, name, native_name))
    /\ UNCHANGED <<currency_pool, country, weather, location_info, renderer, clock, calls>>

\* CountryDTO(alpha2code=..., population=..., currencies=set(currency_pool),
\* languages=set(language_pool), ...).  No field of CountryDTO carries a constraint,
\* so the call always returns.  From here on the model follows only the instances
\* the Country holds.
NewCountry(alpha2code, population) ==
    /\ country = None
    /\ \E currencies \in set_layouts(set_of(currency_pool)),
          languages \in set_layouts(set_of(language_pool)) :
          country' = CountryDTO(alpha2code, population, currencies, languages)
    /\ currency_pool' = <<>>
    /\ language_pool' = <<>>
    /\ UNCHANGED <<weather, location_info, renderer, clock, calls>>

NewWeather(timezone) ==
    /\ weather = None
    /\ weather' = WeatherInfoDTO(timezone)
    /\ UNCHANGED <<currency_pool, language_pool, country, location_info, renderer, clock,
                   calls>>

\* LocationInfoDTO(location=country, weather=weather, currency_rates=..., news=...):
\* currency_rates is any dict[str, float]
NewLocationInfo(currency_rates, news) ==
    /\ country # None
    /\ weather # None
    /\ location_info = None
    /\ location_info' = LocationInfoDTO(currency_rates, news)
    /\ UNCHANGED <<currency_pool, language_pool, country, weather, renderer, clock, calls>>

\* Renderer(location_info)
NewRenderer ==
    /\ location_info # None
    /\ ~renderer
    /\ renderer' = TRUE
    /\ UNCHANGED <<currency_pool, language_pool, country, weather, location_info, clock,
                   calls>>

\* await renderer.render(): the call is recorded with the report it read
Render ==
    /\ renderer
    /\ Len(calls) < MaxRenders
    /\ calls' = Append(calls, [at |-> clock, report |-> the_report,
                               blocks |-> render(the_report, clock)])
    /\ UNCHANGED <<currency_pool, language_pool, country, weather, location_info,
                   renderer, clock>>

\* time passes between two calls
Tick ==
    /\ renderer
    /\ clock < FirstInstant + MaxTicks * TickSeconds
    /\ clock' = clock + TickSeconds
    /\ UNCHANGED <<currency_pool, language_pool, country, weather, location_info,
                   renderer, calls>>

\* country.population = population: the models are not frozen, the assignment
\* is carried out
SetPopulation(population) ==
    /\ country # None
    /\ country' = [country EXCEPT !.dict.population = population]
    /\ UNCHANGED <<currency_pool, language_pool, weather, location_info, renderer, clock,
                   calls>>

\* c.code = code, for an element c of country.currencies: the element stays in
\* the slot of the set its old hash gave it
SetCurrencyCode(i, code) ==
    /\ country # None
    /\ i \in DOMAIN country.dict.currencies
    /\ country' = [country EXCEPT !.dict.currencies[i].dict.code = code]
    /\ UNCHANGED <<currency_pool, language_pool, weather, location_info, renderer, clock,
                   calls>>

\* weather.timezone = timezone
SetTimezone(timezone) ==
    /\ weather # None
    /\ weather' = [weather EXCEPT !.dict.timezone = timezone]
    /\ UNCHANGED <<currency_pool, language_pool, country, location_info, renderer, clock,
                   calls>>

\* One request as models.py sees it: the collectors' results are built into
\* models, and the models, which are not frozen, are assigned to.
Next ==
    \/ \E code \in Codes : NewCurrency(code)
    \/ \E l \in Languages : NewLanguage(l[1], l[2])
    \/ \E alpha2code \in Alpha2Codes, population \in Populations :
          NewCountry(alpha2code, population)
    \/ \E timezone \in Timezones : NewWeather(timezone)
    \/ \E currency_rates \in rate_dicts(RateMicros), news \in news_lists :
          NewLocationInfo(currency_rates, news)
    \/ \E population \in Populations : SetPopulation(population)
    \/ \E i \in 1..MaxInstances, code \in Codes : SetCurrencyCode(i, code)
    \/ \E timezone \in Timezones : SetTimezone(timezone)

Spec == Init /\ [][Next]_vars

(***************************************************************************)
(* The Renderer on a finished report.  The report is the documented        *)
(* example of LocationInfoDTO with one of the Renderer's inputs varied:    *)
(* the population, the offset, the rates, the languages or the news.       *)
(***************************************************************************)
ExamplePopulation == 28875
ExampleTimezone == 7200
example_rates == <<<<"EUR", float(16503)>>>>
example_languages == <<LanguagesInfoDTO(1, "Swedish", "svenska")>>

render_inputs ==
    {[population |-> p, timezone |-> ExampleTimezone, currency_rates |-> example_rates,
      languages |-> example_languages, news |-> <<>>] : p \in AllPopulations}
    \cup
    {[population |-> ExamplePopulation, timezone |-> t, currency_rates |-> example_rates,
      languages |-> example_languages, news |-> <<>>] : t \in AllTimezones}
    \cup
    {[population |-> ExamplePopulation, timezone |-> ExampleTimezone, currency_rates |-> r,
      languages |-> example_languages, news |-> <<>>] : r \in rate_dicts(AllRateMicros)}
    \cup
    {[population |-> ExamplePopulation, timezone |-> ExampleTimezone,
      currency_rates |-> example_rates, languages |-> l, news |-> n] :
        l \in UNION {set_layouts(set_of(pool)) :
                        pool \in {<<>>,
                                  <<LanguagesInfoDTO(1, "Swedish", "svenska"),
                                    LanguagesInfoDTO(2, "Finnish", "suomi")>>}},
        n \in news_lists}

InitRender ==
    /\ currency_pool = <<>>
    /\ language_pool = <<>>
    /\ \E in \in render_inputs :
          /\ country = CountryDTO(<<"A", "X">>, in.population,
                                  <<CurrencyInfoDTO(1, "EUR")>>, in.languages)
          /\ weather = WeatherInfoDTO(in.timezone)
          /\ location_info = LocationInfoDTO(in.currency_rates, in.news)
    /\ renderer = FALSE
    /\ clock = FirstInstant
    /\ calls = <<>>

NextRender ==
    \/ NewRenderer
    \/ Render
    \/ Tick
    \/ \E population \in Populations : SetPopulation(population)

SpecRender == InitRender /\ [][NextRender]_vars

(***************************************************************************)
(* What a recorded call read and returned.                                 *)
(***************************************************************************)
country_grid(call) == call.blocks[2].grid
languages_text(call) == country_grid(call)[4][2]
population_text(call) == country_grid(call)[5][2]
timezone_text(call) == country_grid(call)[7][2]
current_time_text(call) == country_grid(call)[8][2]
currency_rates_text(call) == country_grid(call)[9][2]

is_digit(ch) == \E d \in 0..9 : Digits[d + 1] = ch
digit_value(ch) == CHOOSE d \in 0..9 : Digits[d + 1] = ch
drop_last(s, n) == SubSeq(s, 1, Len(s) - n)
last(s, n) == SubSeq(s, Len(s) - n + 1, Len(s))

(***************************************************************************)
(* C1.  Every rate is rendered as "<CODE> = <amount> rub.", the amount     *)
(* being the rate rounded half-up to two places on its decimal value       *)
(* (micros / 10^6, a tie going up), the entries joined with ", " in the    *)
(* mapping's order.                                                        *)
(***************************************************************************)
decimal_half_up(micros) == (micros + 5000) \div 10000

C1_expected(items) ==
    join(<<",", " ">>,
         [i \in DOMAIN items |->
             <<items[i][1], " ", "=", " ">>
             \o str_nat(decimal_half_up(items[i][2].micros) \div 100) \o <<".">>
             \o zero_pad2(decimal_half_up(items[i][2].micros) % 100)
             \o <<" ", "rub.">>])

C1_RatesRoundHalfUpOnDecimal ==
    \A i \in DOMAIN calls :
        currency_rates_text(calls[i]) = C1_expected(calls[i].report.currency_rates)

\* The claim's own examples, which the code renders as the claim says.
C1_ExamplesHold ==
    \A i \in DOMAIN calls :
        LET items == calls[i].report.currency_rates
        IN  (\A k \in DOMAIN items : items[k][2].micros \in {125000, 5000, 2000000, 16503})
            => currency_rates_text(calls[i]) = C1_expected(items)

(***************************************************************************)
(* C2.  Every key of a LocationInfoDTO's currency_rates is the code of a   *)
(* currency of its Country.                                                *)
(***************************************************************************)
C2_RateKeysAreCountryCurrencies ==
    location_info # None =>
        \A k \in DOMAIN location_info.dict.currency_rates :
            \E c \in DOMAIN country.dict.currencies :
                country.dict.currencies[c].dict.code = location_info.dict.currency_rates[k][1]

(***************************************************************************)
(* C3.  Every constructed CountryDTO has an alpha2code of exactly two      *)
(* characters.                                                             *)
(***************************************************************************)
C3_Alpha2CodeHasLengthTwo ==
    country # None => Len(country.dict.alpha2code) = 2

(***************************************************************************)
(* C4.  The timezone text is "UTC+0" h ":00" with h the floor of the       *)
(* offset over 3600, and for h in 0..9 it is "UTC+HH:00" with HH the two   *)
(* digits of h.                                                            *)
(***************************************************************************)
floor_hours(seconds) == CHOOSE h \in -24..24 : 3600 * h <= seconds /\ seconds < 3600 * (h + 1)

C4_TimezoneText ==
    \A i \in DOMAIN calls :
        LET h == floor_hours(calls[i].report.weather.dict.timezone)
            text == timezone_text(calls[i])
        IN  /\ SubSeq(text, 1, 5) = <<"U", "T", "C", "+", "0">>
            /\ last(text, 3) = <<":", "0", "0">>
            /\ SubSeq(text, 6, Len(text) - 3) = str_int(h)
            /\ h \in 0..9 =>
                  /\ Len(text) = 9
                  /\ 10 * digit_value(text[5]) + digit_value(text[6]) = h

C4_Witness ==
    \E i \in DOMAIN calls :
        /\ calls[i].report.weather.dict.timezone = 7200
        /\ timezone_text(calls[i]) = <<"U", "T", "C", "+", "0", "2", ":", "0", "0">>

(***************************************************************************)
(* C5.  The population text of a population n >= 0 is the decimal digits   *)
(* of n with a period before every group of three digits counted from the  *)
(* right, no period first, and no comma.                                   *)
(***************************************************************************)
RECURSIVE pow10(_)
pow10(k) == IF k = 0 THEN 1 ELSE 10 * pow10(k - 1)

C5_PopulationText ==
    \A i \in DOMAIN calls :
        LET n == calls[i].report.location.dict.population
            text == drop_last(population_text(calls[i]), 2)
            digits == SelectSeq(text, LAMBDA ch : ch # ".")
            len == Len(text)
        IN  n >= 0 =>
              /\ last(population_text(calls[i]), 2) = <<" ", "chel.">>
              /\ \A p \in DOMAIN text : text[p] # ","
              /\ \A p \in DOMAIN text : (text[p] = ".") <=> ((len - p + 1) % 4 = 0)
              /\ \A p \in DOMAIN digits :
                    /\ is_digit(digits[p])
                    /\ digit_value(digits[p]) = (n \div pow10(Len(digits) - p)) % 10
              /\ Len(digits) >= 1
              /\ Len(digits) = 10 \/ n < pow10(Len(digits))
              /\ Len(digits) > 1 => digits[1] # "0"

C5_Witness ==
    \E i \in DOMAIN calls :
        /\ calls[i].report.location.dict.population = 1000000
        /\ population_text(calls[i])
             = <<"1", ".", "0", "0", "0", ".", "0", "0", "0", " ", "chel.">>

(***************************************************************************)
(* C6.  render returns six blocks: the Country title and grid, the Capital *)
(* title and grid, the Weather title and grid, whatever the report holds.  *)
(***************************************************************************)
is_grid(block, first_label) ==
    /\ DOMAIN block = {"grid"}
    /\ block.grid[1][1] = first_label

C6_SixBlocks ==
    \A i \in DOMAIN calls :
        LET blocks == calls[i].blocks
        IN  /\ Len(blocks) = 6
            /\ blocks[1] = "Informatsiya o strane"
            /\ is_grid(blocks[2], "Strana") /\ Len(blocks[2].grid) = 9
            /\ blocks[3] = "Informatsiya o stolitse"
            /\ is_grid(blocks[4], "Stolitsa") /\ Len(blocks[4].grid) = 3
            /\ blocks[5] = "Informatsiya o pogode"
            /\ is_grid(blocks[6], "Pogoda") /\ Len(blocks[6].grid) = 4

C6_Witness ==
    \E i \in DOMAIN calls :
        /\ calls[i].report.news # <<>>
        /\ calls[i].report.location.dict.languages = <<>>
        /\ Len(calls[i].blocks) = 6

(***************************************************************************)
(* C7.  Two render calls that read the same report return the same blocks  *)
(* but for the current-time row, and the same blocks outright when the     *)
(* clock stood still between them.                                         *)
(***************************************************************************)
without_time(blocks) == [blocks EXCEPT ![2].grid[8][2] = <<>>]

no_duplicate_keys(c) ==
    /\ \A i, j \in DOMAIN c.dict.currencies :
          c.dict.currencies[i].dict.code = c.dict.currencies[j].dict.code => i = j
    /\ \A i, j \in DOMAIN c.dict.languages :
          c.dict.languages[i].dict = c.dict.languages[j].dict => i = j

C8_NoDuplicateKeys == country # None => no_duplicate_keys(country)

\* What does hold of the code: instances with equal keys are equal and hash
\* alike, and the sets of a CountryDTO hold no duplicate when it is built.
C8_EqualKeysEqualHashes ==
    /\ \A i, j \in DOMAIN currency_pool :
          currency_pool[i].dict.code = currency_pool[j].dict.code
          => eq(currency_pool[i], currency_pool[j])
             /\ hash(currency_pool[i]) = hash(currency_pool[j])
    /\ \A i, j \in DOMAIN language_pool :
          language_pool[i].dict = language_pool[j].dict
          => eq(language_pool[i], language_pool[j])
             /\ hash(language_pool[i]) = hash(language_pool[j])

C8_NoDuplicateWhenBuilt ==
    [][(country = None /\ country' # None) => no_duplicate_keys(country')]_vars

(***************************************************************************)
(* C9.  Once constructed, a model keeps the field values it was            *)
(* constructed with.                                                       *)
(***************************************************************************)
C9_ImmutableAfterConstruction ==
    [][/\ country # None => country' = country
       /\ weather # None => weather' = weather
       /\ location_info # None => location_info' = location_info]_vars

(***************************************************************************)
(* C10.  The current-time text read at instant t with offset o is HH:MM,   *)
(* two digits each, of the second (t + o) mod 86400 of the day.            *)
(***************************************************************************)
C10_CurrentTimeText ==
    \A i \in DOMAIN calls :
        LET second_of_day == (calls[i].at + calls[i].report.weather.dict.timezone) % 86400
            text == current_time_text(calls[i])
        IN  /\ Len(text) = 5
            /\ text[3] = ":"
            /\ \A p \in {1, 2, 4, 5} : is_digit(text[p])
            /\ 10 * digit_value(text[1]) + digit_value(text[2]) = second_of_day \div 3600
            /\ 10 * digit_value(text[4]) + digit_value(text[5])
                 = (second_of_day % 3600) \div 60
            /\ second_of_day \div 3600 \in 0..23
            /\ (second_of_day % 3600) \div 60 \in 0..59

C10_Witness ==
    \E i, j \in DOMAIN calls :
        /\ calls[i].at = FirstInstant
        /\ calls[i].report.weather.dict.timezone = -3600
        /\ current_time_text(calls[i]) = <<"2", "2", ":", "5", "9">>
        /\ calls[j].at > calls[i].at
        /\ current_time_text(calls[j])[1] = "2"
        /\ current_time_text(calls[j])[2] = "3"

====
